---------------------------- MODULE Spec2Model ----------------------------
(***************************************************************************)
(* weather_now.py: a command-line weather lookup.  main() geocodes a place *)
(* name, fetches the current conditions and prints them.  The module       *)
(* models one run of main() (Spec) and the pure lookup helpers applied to  *)
(* every argument of their domain (SpecPure).                              *)
(***************************************************************************)
EXTENDS Integers, Sequences, FiniteSets, TLC

VARIABLES
    pc,           \* position of main(): "start", "geocoded", "fetched", "done"
    output_type,  \* main's output_type argument
    units,        \* main's units argument (temperature, precipitation, wind)
    location,     \* (name, latitude, longitude) returned by geocode
    data,         \* the parsed forecast body returned by fetch_weather
    stdout,       \* the lines printed so far
    result,       \* "running", "returned 0", "returned 1", or "unhandled <exception>"
    trace,        \* history: the requests issued and the stages completed
    call,         \* SpecPure: the helper call that was made
    ret           \* SpecPure: what the call returned

vars == <<pc, output_type, units, location, data, stdout, result, trace, call, ret>>

-----------------------------------------------------------------------------
(* Bounds *)

\* weather codes 0..MaxCode are passed to the code-table helpers
MaxCode == 99
\* wind directions 0..MaxDegrees are passed to degrees_to_compass
MaxDegrees == 360

-----------------------------------------------------------------------------
(* Static tables *)

WEATHER_CODES ==
    (0 :> "Clear sky") @@ (1 :> "Mainly clear") @@ (2 :> "Partly cloudy") @@
    (3 :> "Overcast") @@ (45 :> "Foggy") @@ (48 :> "Depositing rime fog") @@
    (51 :> "Light drizzle") @@ (53 :> "Moderate drizzle") @@
    (55 :> "Dense drizzle") @@ (56 :> "Light freezing drizzle") @@
    (57 :> "Dense freezing drizzle") @@ (61 :> "Slight rain") @@
    (63 :> "Moderate rain") @@ (65 :> "Heavy rain") @@
    (66 :> "Light freezing rain") @@ (67 :> "Heavy freezing rain") @@
    (71 :> "Slight snowfall") @@ (73 :> "Moderate snowfall") @@
    (75 :> "Heavy snowfall") @@ (77 :> "Snow grains") @@
    (80 :> "Slight rain showers") @@ (81 :> "Moderate rain showers") @@
    (82 :> "Violent rain showers") @@ (85 :> "Slight snow showers") @@
    (86 :> "Heavy snow showers") @@ (95 :> "Thunderstorm") @@
    (96 :> "Thunderstorm with slight hail") @@
    (99 :> "Thunderstorm with heavy hail")

\* each glyph is named, not drawn; the nine drawings are pairwise different
WEATHER_ASCII_ART ==
    [clear |-> "art: sun",
     clear_night |-> "art: moon",
     partly_cloudy |-> "art: sun behind cloud",
     partly_cloudy_night |-> "art: moon and cloud",
     cloudy |-> "art: cloud",
     rain |-> "art: cloud with rain",
     snow |-> "art: cloud with snow",
     thunderstorm |-> "art: cloud with lightning",
     fog |-> "art: fog bank"]

WEATHER_SYMBOLS ==
    [clear |-> "black sun with rays",
     clear_night |-> "crescent moon",
     partly_cloudy |-> "sun behind cloud",
     partly_cloudy_night |-> "crescent moon" \o "cloud",
     cloudy |-> "cloud",
     rain |-> "cloud with rain",
     snow |-> "cloud with snow",
     thunderstorm |-> "thunder cloud and rain",
     fog |-> "fog"]

directions ==
    <<"N", "NNE", "NE", "ENE", "E", "ESE", "SE", "SSE",
      "S", "SSW", "SW", "WSW", "W", "WNW", "NW", "NNW">>

-----------------------------------------------------------------------------
(* Python built-ins *)

\* round(n / d) for integers n >= 0, d > 0: to the nearest integer, a tie to
\* the even one
PyRound(n, d) ==
    LET q == n \div d
        r == n % d
    IN  IF 2 * r < d THEN q
        ELSE IF 2 * r > d THEN q + 1
        ELSE IF q % 2 = 0 THEN q ELSE q + 1

\* bool(x) of an integer
Truthy(x) == x # 0

-----------------------------------------------------------------------------
(* Pure helpers *)

degrees_to_compass_floor(degrees) ==
    LET index == ((2 * degrees) \div 45) % 16
    IN  directions[index + 1]

\* degrees / 22.5 is 2 * degrees / 45
degrees_to_compass(degrees) ==
    LET index == PyRound(2 * degrees, 45) % 16
    IN  directions[index + 1]

get_weather_description(code) ==
    IF code \in DOMAIN WEATHER_CODES
    THEN WEATHER_CODES[code]
    ELSE "Unknown (" \o ToString(code) \o ")"

get_weather_category_no_fog(code) ==
    IF code \in {0, 1} THEN "clear"
    ELSE IF code = 2 THEN "partly_cloudy"
    ELSE IF code = 3 THEN "cloudy"
    ELSE IF code \in {51, 53, 55, 61, 63, 65, 80, 81, 82} THEN "rain"
    ELSE IF code \in {71, 73, 75, 77, 85, 86, 56, 57, 66, 67} THEN "snow"
    ELSE IF code \in {95, 96, 99} THEN "thunderstorm"
    ELSE IF code \in {44, 48} THEN "fog"
    ELSE "cloudy"

get_weather_category(code) ==
    IF code \in {0, 1} THEN "clear"
    ELSE IF code = 2 THEN "partly_cloudy"
    ELSE IF code = 3 THEN "cloudy"
    ELSE IF code \in {51, 53, 55, 61, 63, 65, 80, 81, 82} THEN "rain"
    ELSE IF code \in {71, 73, 75, 77, 85, 86, 56, 57, 66, 67} THEN "snow"
    ELSE IF code \in {95, 96, 99} THEN "thunderstorm"
    ELSE IF code \in {45, 48} THEN "fog"
    ELSE "cloudy"

\* dict.get(key, default)
DictGet(d, key, default) == IF key \in DOMAIN d THEN d[key] ELSE default

\* the condition of the line the source keeps as a comment (line 173)
get_weather_graphic_old(graphic_type, code, is_day) ==
    LET category == get_weather_category(code)
        suffix == IF (~Truthy(is_day) /\ category = "clear")
                     \/ category = "partly_cloudy"
                  THEN "_night" ELSE ""
    IN  DictGet(graphic_type, category \o suffix, graphic_type["cloudy"])

\* Python reads "a or b and not c" as "a or (b and not c)"
get_weather_graphic(graphic_type, code, is_day) ==
    LET category == get_weather_category(code)
        suffix == IF category = "clear"
                     \/ (category = "partly_cloudy" /\ ~Truthy(is_day))
                  THEN "_night" ELSE ""
    IN  DictGet(graphic_type, category \o suffix, graphic_type["cloudy"])

-----------------------------------------------------------------------------
(* Parsed JSON values, as Python holds them after response.json() *)

JNull == [t |-> "null"]
JNum(n) == [t |-> "num", v |-> n]
JStr(s) == [t |-> "str", v |-> s]
JList(items) == [t |-> "list", v |-> items]
JDict(fields) == [t |-> "dict", v |-> fields]

\* the outcome of a Python expression: a value, or an exception raised
Ok(v) == [ok |-> TRUE, val |-> v, exc |-> "none"]
Raise(e) == [ok |-> FALSE, val |-> JNull, exc |-> e]

\* x[key] for a string key: a dict looks the key up, a list or a str refuses
\* a str index, None and numbers are not subscriptable
GetKey(x, key) ==
    IF x.t = "dict"
    THEN IF key \in DOMAIN x.v THEN Ok(x.v[key]) ELSE Raise("KeyError")
    ELSE Raise("TypeError")

\* x[i] for an integer i >= 0 (the bodies modelled hold no str where the
\* code indexes by position)
GetIndex(x, i) ==
    CASE x.t = "dict" -> Raise("KeyError")  \* JSON keys are strings
      [] x.t = "list" ->
            IF i < Len(x.v) THEN Ok(x.v[i + 1]) ELSE Raise("IndexError")
      [] x.t \in {"null", "num"} -> Raise("TypeError")

\* str(x) and the f-string rendering of a value (numbers are integers here)
PyStr(x) ==
    CASE x.t = "null" -> "None"
      [] x.t = "num" -> ToString(x.v)
      [] x.t = "str" -> x.v

\* x >= n for an integer n: None and str do not order against int
GreaterEq(x, n) == IF x.t = "num" THEN Ok(x.v >= n) ELSE Raise("TypeError")

\* round(n / d, 2) as a number of hundredths; the visibilities modelled
\* never fall on a tie, where the binary quotient decides
Round2(n, d) == PyRound(100 * n, d)

\* how Python prints the float h / 100
FloatStr(h) ==
    LET whole == ToString(h \div 100)
        frac == h % 100
    IN  whole \o "." \o
        (IF frac % 10 = 0 THEN ToString(frac \div 10)
         ELSE IF frac < 10 THEN "0" \o ToString(frac)
         ELSE ToString(frac))

\* str * n
RECURSIVE Repeat(_, _)
Repeat(s, n) == IF n <= 0 THEN "" ELSE s \o Repeat(s, n - 1)

\* the exception the first failing expression of a sequence raises
RECURSIVE FirstExc(_)
FirstExc(rs) ==
    IF rs = <<>> THEN "none"
    ELSE IF ~Head(rs).ok THEN Head(rs).exc
    ELSE FirstExc(Tail(rs))

\* what the expressions before the first failing one produced
RECURSIVE Completed(_)
Completed(rs) ==
    IF rs = <<>> \/ ~Head(rs).ok THEN <<>>
    ELSE <<Head(rs).val>> \o Completed(Tail(rs))

-----------------------------------------------------------------------------
(* HTTP *)

\* requests.get raised (connection error, timeout): no response
TransportError == [transport |-> "error", status |-> 0, shape |-> "none",
                   is_json |-> FALSE, body |-> JNull]

Response(status, shape, is_json, body) ==
    [transport |-> "ok", status |-> status, shape |-> shape,
     is_json |-> is_json, body |-> body]

\* response.raise_for_status(): HTTPError for a 4xx or 5xx status
raise_for_status(resp) ==
    IF 400 <= resp.status /\ resp.status < 600
    THEN Raise("RequestException") ELSE Ok(JNull)

\* what response.json() raises on a body that is not JSON: a subclass of
\* RequestException from requests 2.27 on, a plain ValueError before
JSONErrorKinds == {"RequestException", "ValueError"}

\* response.json()
json(resp, json_error) ==
    IF resp.is_json THEN Ok(resp.body) ELSE Raise(json_error)

-----------------------------------------------------------------------------
(* geocode *)

LOCATION_NOT_FOUND ==
    "Location not found. Did you forget to supply a valid " \o
    "-l <country_code> option?"

geocode(resp, json_error) ==
    IF resp.transport = "error" THEN Raise("RequestException")
    ELSE
    LET parsed == json(resp, json_error)
        results == GetKey(parsed.val, "results")
        first == GetIndex(results.val, 0)
        name == GetKey(first.val, "name")
        latitude == GetKey(first.val, "latitude")
        longitude == GetKey(first.val, "longitude")
        exc == IF ~results.ok THEN results.exc
               ELSE IF ~first.ok THEN first.exc
               ELSE FirstExc(<<name, latitude, longitude>>)
    IN  IF ~parsed.ok THEN parsed
        ELSE IF exc = "KeyError" THEN Raise("RuntimeError")
        ELSE IF exc # "none" THEN Raise(exc)
        ELSE Ok([name |-> PyStr(name.val),
                 latitude |-> PyStr(latitude.val),
                 longitude |-> PyStr(longitude.val)])

-----------------------------------------------------------------------------
(* fetch_weather *)

BasicFields ==
    <<"temperature_2m", "apparent_temperature", "relative_humidity_2m",
      "wind_speed_10m", "wind_gusts_10m", "wind_direction_10m",
      "weather_code", "cloud_cover", "precipitation", "pressure_msl",
      "visibility", "is_day">>

ExtraFields ==
    <<"dew_point_2m", "wind_speed_80m", "wind_speed_120m", "wind_speed_180m",
      "wind_direction_80m", "wind_direction_120m", "wind_direction_180m",
      "cloud_cover_low", "cloud_cover_mid", "cloud_cover_high",
      "freezing_level_height", "cape", "lifted_index",
      "convective_inhibition", "total_column_integrated_water_vapour",
      "vapour_pressure_deficit", "evapotranspiration">>

\* the query of the forecast request
ForecastParams(latitude, longitude, u, otype) ==
    [latitude |-> latitude,
     longitude |-> longitude,
     temperature_unit |-> u.temperature,
     precipitation_unit |-> u.precipitation,
     wind_speed_unit |-> u.wind,
     current |-> IF otype = "extra" THEN BasicFields \o ExtraFields
                 ELSE BasicFields,
     timezone |-> "auto"]

fetch_weather(resp, json_error) ==
    IF resp.transport = "error" THEN Raise("RequestException")
    ELSE IF ~raise_for_status(resp).ok THEN raise_for_status(resp)
    ELSE json(resp, json_error)

-----------------------------------------------------------------------------
(* display_weather *)

Line(label, field, value, sep, unit) ==
    [label |-> label, field |-> field, value |-> value, sep |-> sep,
     unit |-> unit]

\* print(f"{label}: {value}{sep}{units[key]}"), value read from current[field]
UnitLine(label, current, field, sep, u, key) ==
    LET unit == GetKey(u, key)
    IN  IF unit.ok
        THEN Ok(Line(label, field, PyStr(current.v[field]), sep, PyStr(unit.val)))
        ELSE Raise(unit.exc)

\* a print that reads no unit
PlainLine(label, value) == Ok(Line(label, "", value, "", ""))

\* lines 234-271: the reads display_weather makes before it prints
DisplayReads(d, otype) ==
    LET current == GetKey(d, "current")
        u == GetKey(d, "current_units")
    IN  <<current, u, GetKey(d, "latitude"), GetKey(d, "longitude"),
          GetKey(current.val, "time"), GetKey(current.val, "is_day"),
          GetKey(current.val, "temperature_2m"),
          GetKey(current.val, "apparent_temperature"),
          GetKey(current.val, "relative_humidity_2m"),
          GetKey(current.val, "wind_speed_10m"),
          GetKey(current.val, "wind_gusts_10m"),
          GetKey(current.val, "wind_direction_10m"),
          GetKey(current.val, "weather_code"),
          GetKey(current.val, "cloud_cover"),
          GetKey(current.val, "precipitation"),
          GetKey(current.val, "pressure_msl"),
          GetKey(u.val, "visibility")>>
        \o (IF otype = "extra"
            THEN [i \in 1..Len(ExtraFields) |->
                    GetKey(current.val, ExtraFields[i])]
            ELSE <<>>)

\* lines 275-282: the visibility printed and its unit
NormalizeVisibility(current, visibility_unit) ==
    LET raw == GetKey(current, "visibility")
        is_ft == visibility_unit.t = "str" /\ visibility_unit.v = "ft"
        miles == IF is_ft THEN GreaterEq(raw.val, 5280) ELSE Ok(FALSE)
        km == GreaterEq(raw.val, 1000)
    IN  IF ~raw.ok THEN raw
        ELSE IF ~miles.ok THEN miles
        ELSE IF miles.val
             THEN Ok([value |-> FloatStr(Round2(raw.val.v, 5280)),
                      unit |-> "miles"])
        ELSE IF ~km.ok THEN km
        ELSE IF km.val
             THEN Ok([value |-> FloatStr(Round2(raw.val.v, 1000)),
                      unit |-> "km"])
        ELSE Ok([value |-> PyStr(raw.val), unit |-> PyStr(visibility_unit)])

\* lines 284-368: the prints, in order, each a line or the exception it raises
DisplayPrints(location_name, d, otype, visibility) ==
    LET current == d.v["current"]
        u == d.v["current_units"]
        latitude == PyStr(d.v["latitude"])
        longitude == PyStr(d.v["longitude"])
        time == PyStr(current.v["time"])
        weather_code == current.v["weather_code"]
        is_day == current.v["is_day"]
        wind_direction == current.v["wind_direction_10m"]
        header == "Weather for " \o location_name \o ", " \o latitude \o ","
                  \o longitude \o " at " \o time
    IN  <<PlainLine("", "")>>
        \o (IF otype = "classic"
            THEN <<PlainLine(header, ""),
                   PlainLine(Repeat("=", Len(header)), ""),
                   PlainLine("", get_weather_graphic(WEATHER_ASCII_ART,
                                                     weather_code.v, is_day.v))>>
            ELSE IF otype = "data" \/ otype = "extra"
            THEN <<PlainLine("Location", location_name),
                   PlainLine("Coordinates", latitude \o "," \o longitude),
                   PlainLine("Local time", time),
                   PlainLine("Weather code", PyStr(weather_code)),
                   PlainLine("Symbol", get_weather_graphic(WEATHER_SYMBOLS,
                                                           weather_code.v, is_day.v))>>
            ELSE <<>>)
        \o <<UnitLine("Temperature", current, "temperature_2m", "", u, "temperature_2m"),
             UnitLine("Feels like", current, "apparent_temperature", "", u, "apparent_temperature"),
             UnitLine("Humidity", current, "relative_humidity_2m", "", u, "relative_humidity_2m"),
             UnitLine("Wind", current, "wind_speed_10m", " ", u, "wind_speed_10m"),
             UnitLine("Gusts", current, "wind_gusts_10m", " ", u, "wind_gusts_10m"),
             IF otype = "extra"
             THEN UnitLine("Direction", current, "wind_direction_10m", "", u, "wind_direction_10m")
             ELSE IF wind_direction.t = "num"
                  THEN PlainLine("Direction", degrees_to_compass(wind_direction.v))
                  ELSE Raise("TypeError"),  \* None / 22.5
             PlainLine("Conditions", get_weather_description(weather_code.v)),
             UnitLine("Cloud cover", current, "cloud_cover", "", u, "cloud_cover"),
             UnitLine("Precipitation", current, "precipitation", " ", u, "precipitation"),
             UnitLine("Pressure", current, "pressure_msl", " ", u, "pressure_msl"),
             Ok(Line("Visibility", "visibility", visibility.value, " ", visibility.unit))>>
        \o (IF otype = "extra"
            THEN <<UnitLine("Dewpoint", current, "dew_point_2m", " ", u, "dew_point_2m"),
                   UnitLine("Wind 80m", current, "wind_speed_80m", " ", u, "wind_speed_80m"),
                   UnitLine("Wind 120m", current, "wind_speed_120m", " ", u, "wind_speed_120m"),
                   UnitLine("Wind 180m", current, "wind_speed_180m", " ", u, "wind_speed_180m"),
                   UnitLine("Wind direction 80m", current, "wind_direction_80m", " ", u, "wind_direction_80m"),
                   UnitLine("Wind direction 120m", current, "wind_direction_120m", " ", u, "wind_direction_120m"),
                   UnitLine("Wind direction 180m", current, "wind_direction_180m", " ", u, "wind_direction_180m"),
                   UnitLine("Cloud cover, low", current, "cloud_cover_low", " ", u, "cloud_cover_low"),
                   UnitLine("Cloud cover, middle", current, "cloud_cover_mid", " ", u, "cloud_cover_mid"),
                   UnitLine("Cloud cover, high", current, "cloud_cover_high", " ", u, "cloud_cover_high"),
                   UnitLine("Freezing level", current, "freezing_level_height", " ", u, "freezing_level_height"),
                   UnitLine("CAPE", current, "cape", "", u, "cape"),
                   UnitLine("Lifted index", current, "lifted_index", " ", u, "lifted_index"),
                   UnitLine("Convective inhibition", current, "convective_inhibition", " ", u, "convective_inhibition"),
                   UnitLine("TCWV", current, "total_column_integrated_water_vapour", " ", u, "total_column_integrated_water_vapour"),
                   UnitLine("Vapour pressure deficit", current, "vapour_pressure_deficit", " ", u, "vapour_pressure_deficit"),
                   UnitLine("Evapotranspiration", current, "evapotranspiration", " ", u, "vapour_pressure_deficit")>>
            ELSE <<>>)
        \o <<PlainLine("", "")>>

\* what display_weather printed, and the exception that ended it ("none"
\* when it returned)
display_weather(location_name, d, otype) ==
    LET reads == DisplayReads(d, otype)
        visibility == NormalizeVisibility(d.v["current"],
                                          d.v["current_units"].v["visibility"])
        prints == DisplayPrints(location_name, d, otype, visibility.val)
    IN  IF FirstExc(reads) # "none"
        THEN [out |-> <<>>, exc |-> FirstExc(reads)]
        ELSE IF ~visibility.ok
        THEN [out |-> <<>>, exc |-> visibility.exc]
        ELSE [out |-> Completed(prints), exc |-> FirstExc(prints)]

-----------------------------------------------------------------------------
(* The two services: the responses a run of main() may receive *)

Statuses == {200, 404, 500}

Range(seq) == {seq[i] : i \in 1..Len(seq)}

GeoMatch ==
    JDict([name |-> JStr("London"), latitude |-> JNum(51),
           longitude |-> JNum(0), country_code |-> JStr("GB")])

GeoBodies ==
    {[shape |-> "not_json", is_json |-> FALSE, body |-> JNull],
     [shape |-> "array", is_json |-> TRUE, body |-> JList(<<>>)],
     [shape |-> "no_results", is_json |-> TRUE,
      body |-> JDict([reason |-> JStr("no match")])],
     [shape |-> "results_null", is_json |-> TRUE,
      body |-> JDict([results |-> JNull])],
     [shape |-> "results_empty", is_json |-> TRUE,
      body |-> JDict([results |-> JList(<<>>)])],
     [shape |-> "no_longitude", is_json |-> TRUE,
      body |-> JDict([results |-> JList(<<JDict([name |-> JStr("London"),
                                                 latitude |-> JNum(51)])>>)])],
     [shape |-> "match", is_json |-> TRUE,
      body |-> JDict([results |-> JList(<<GeoMatch>>)])]}

GeoResponses ==
    {TransportError} \cup
    {Response(st, b.shape, b.is_json, b.body) : st \in Statuses, b \in GeoBodies}

\* the observations a forecast body may carry
SampleCodes == {0, 2, 50}
SampleDirections == {JNum(0), JNum(359), JNull}
SampleVisibilities ==
    {JNull, JNum(500), JNum(1000), JNum(1500), JNum(3000), JNum(5279),
     JNum(5280), JNum(6000)}

Observations ==
    [code : SampleCodes, is_day : {0, 1}, wind_direction : SampleDirections,
     visibility : SampleVisibilities, lengths : {"metric", "imperial"}]

ObservedValue(f, obs) ==
    CASE f = "weather_code" -> JNum(obs.code)
      [] f = "is_day" -> JNum(obs.is_day)
      [] f = "wind_direction_10m" -> obs.wind_direction
      [] f = "visibility" -> obs.visibility
      [] f = "time" -> JStr("2026-01-01T12:00")
      [] OTHER -> JNum(7)

\* the unit the service reports for a field
ServiceUnit(f, lengths) ==
    CASE f \in {"temperature_2m", "apparent_temperature", "dew_point_2m"} -> "C"
      [] f \in {"relative_humidity_2m", "cloud_cover", "cloud_cover_low",
                "cloud_cover_mid", "cloud_cover_high"} -> "%"
      [] f \in {"wind_speed_10m", "wind_gusts_10m", "wind_speed_80m",
                "wind_speed_120m", "wind_speed_180m"} -> "km/h"
      [] f \in {"wind_direction_10m", "wind_direction_80m",
                "wind_direction_120m", "wind_direction_180m"} -> "deg"
      [] f \in {"precipitation", "evapotranspiration"} ->
            IF lengths = "imperial" THEN "inch" ELSE "mm"
      [] f \in {"visibility", "freezing_level_height"} ->
            IF lengths = "imperial" THEN "ft" ELSE "m"
      [] f = "pressure_msl" -> "hPa"
      [] f \in {"cape", "convective_inhibition"} -> "J/kg"
      [] f = "total_column_integrated_water_vapour" -> "kg/m2"
      [] f = "vapour_pressure_deficit" -> "kPa"
      [] f = "weather_code" -> "wmo code"
      [] f = "time" -> "iso8601"
      [] f = "interval" -> "seconds"
      [] OTHER -> ""

\* the body for a request of `fields`, without the keys in `drop` of
\* current and `drop_units` of current_units
ForecastJSON(fields, obs, drop, drop_units) ==
    LET keys == Range(fields) \cup {"time", "interval"}
    IN  JDict([latitude |-> JNum(51),
               longitude |-> JNum(0),
               timezone |-> JStr("Europe/London"),
               current |-> JDict([f \in keys \ drop |-> ObservedValue(f, obs)]),
               current_units |->
                   JDict([f \in keys \ drop_units |->
                            JStr(ServiceUnit(f, obs.lengths))])])

PlainObservation ==
    [code |-> 3, is_day |-> 1, wind_direction |-> JNum(180),
     visibility |-> JNum(24140), lengths |-> "metric"]

ForecastBodies(params) ==
    {[shape |-> "not_json", is_json |-> FALSE, body |-> JNull],
     [shape |-> "array", is_json |-> TRUE, body |-> JList(<<>>)],
     [shape |-> "no_current", is_json |-> TRUE,
      body |-> JDict([error |-> JStr("true"), reason |-> JStr("bad request")])],
     [shape |-> "no_pressure", is_json |-> TRUE,
      body |-> ForecastJSON(params.current, PlainObservation, {"pressure_msl"}, {})],
     [shape |-> "no_cloud_cover_unit", is_json |-> TRUE,
      body |-> ForecastJSON(params.current, PlainObservation, {}, {"cloud_cover"})]}
    \cup
    {[shape |-> "observation", is_json |-> TRUE,
      body |-> ForecastJSON(params.current, obs, {}, {})] : obs \in Observations}

ForecastResponses(params) ==
    {TransportError} \cup
    {Response(st, "error", TRUE, JDict([error |-> JStr("true")])) :
        st \in Statuses \ {200}} \cup
    {Response(200, b.shape, b.is_json, b.body) : b \in ForecastBodies(params)}

-----------------------------------------------------------------------------
(* main *)

Event(ev, endpoint, resp) ==
    [ev |-> ev, endpoint |-> endpoint, status |-> resp.status,
     transport |-> resp.transport, shape |-> resp.shape]

NETWORK_ERROR == "Error geocoding location or fetching weather data"
PARSE_ERROR == "Error parsing weather data"

\* the except clauses of main, in order: the line printed and how main ends
Except(exc) ==
    IF exc = "RequestException"
    THEN [out |-> <<Line(NETWORK_ERROR, "", exc, "", "")>>, result |-> "returned 1"]
    ELSE IF exc = "RuntimeError"
    THEN [out |-> <<Line(LOCATION_NOT_FOUND, "", "", "", "")>>, result |-> "returned 1"]
    ELSE IF exc \in {"KeyError", "TypeError"}
    THEN [out |-> <<Line(PARSE_ERROR, "", exc, "", "")>>, result |-> "returned 1"]
    ELSE [out |-> <<>>, result |-> "unhandled " \o exc]

NoLocation == [name |-> "", latitude |-> "", longitude |-> ""]
NoCall == [fn |-> "none", graphic_type |-> "", code |-> 0, is_day |-> 0,
           degrees |-> 0]

UnitChoices ==
    [temperature : {"celsius", "fahrenheit"}, precipitation : {"mm", "inch"},
     wind : {"kmh", "ms", "mph", "kn"}]

Init ==
    /\ pc = "start"
    /\ output_type \in {"classic", "data", "extra"}
    /\ units \in UnitChoices
    /\ location = NoLocation
    /\ data = JNull
    /\ stdout = <<>>
    /\ result = "running"
    /\ trace = <<>>
    /\ call = NoCall
    /\ ret = ""

\* line 374
Geocode ==
    /\ pc = "start"
    /\ \E resp \in GeoResponses, json_error \in JSONErrorKinds :
        LET r == geocode(resp, json_error)
            request == Event("request", "geocoding", resp)
        IN  IF r.ok
            THEN /\ location' = r.val
                 /\ trace' = trace \o <<request, Event("returned", "geocoding", resp)>>
                 /\ pc' = "geocoded"
                 /\ UNCHANGED <<stdout, result>>
            ELSE /\ trace' = Append(trace, request)
                 /\ stdout' = stdout \o Except(r.exc).out
                 /\ result' = Except(r.exc).result
                 /\ pc' = "done"
                 /\ UNCHANGED location
    /\ UNCHANGED <<output_type, units, data, call, ret>>

\* line 375
FetchWeather ==
    /\ pc = "geocoded"
    /\ LET params == ForecastParams(location.latitude, location.longitude,
                                    units, output_type)
       IN  \E resp \in ForecastResponses(params), json_error \in JSONErrorKinds :
            LET r == fetch_weather(resp, json_error)
                request == Event("request", "forecast", resp)
            IN  IF r.ok
                THEN /\ data' = r.val
                     /\ trace' = trace \o <<request, Event("returned", "forecast", resp)>>
                     /\ pc' = "fetched"
                     /\ UNCHANGED <<stdout, result>>
                ELSE /\ trace' = Append(trace, request)
                     /\ stdout' = stdout \o Except(r.exc).out
                     /\ result' = Except(r.exc).result
                     /\ pc' = "done"
                     /\ UNCHANGED data
    /\ UNCHANGED <<output_type, units, location, call, ret>>

\* lines 376-386
DisplayWeather ==
    /\ pc = "fetched"
    /\ LET r == display_weather(location.name, data, output_type)
           render == [ev |-> "render", endpoint |-> "", status |-> 0,
                      transport |-> "", shape |-> ""]
       IN  IF r.exc = "none"
           THEN /\ stdout' = stdout \o r.out
                /\ result' = "returned 0"
                /\ trace' = trace \o <<render, [render EXCEPT !.ev = "rendered"]>>
           ELSE /\ stdout' = stdout \o r.out \o Except(r.exc).out
                /\ result' = Except(r.exc).result
                /\ trace' = Append(trace, render)
    /\ pc' = "done"
    /\ UNCHANGED <<output_type, units, location, data, call, ret>>

Next == Geocode \/ FetchWeather \/ DisplayWeather

Spec == Init /\ [][Next]_vars

-----------------------------------------------------------------------------
(* The helpers, each applied once to an argument of its domain *)

GraphicTypes == [ascii_art |-> WEATHER_ASCII_ART, symbols |-> WEATHER_SYMBOLS]

InitPure ==
    /\ pc = "pure"
    /\ output_type = "classic"
    /\ units = [temperature |-> "celsius", precipitation |-> "mm", wind |-> "kmh"]
    /\ location = NoLocation
    /\ data = JNull
    /\ stdout = <<>>
    /\ result = "running"
    /\ trace = <<>>
    /\ call = NoCall
    /\ ret = ""

CallCompass ==
    /\ call.fn = "none"
    /\ \E d \in 0..MaxDegrees :
        /\ call' = [NoCall EXCEPT !.fn = "degrees_to_compass", !.degrees = d]
        /\ ret' = degrees_to_compass(d)
    /\ UNCHANGED <<pc, output_type, units, location, data, stdout, result, trace>>

CallDescription ==
    /\ call.fn = "none"
    /\ \E c \in 0..MaxCode :
        /\ call' = [NoCall EXCEPT !.fn = "get_weather_description", !.code = c]
        /\ ret' = get_weather_description(c)
    /\ UNCHANGED <<pc, output_type, units, location, data, stdout, result, trace>>

CallCategory ==
    /\ call.fn = "none"
    /\ \E c \in 0..MaxCode :
        /\ call' = [NoCall EXCEPT !.fn = "get_weather_category", !.code = c]
        /\ ret' = get_weather_category(c)
    /\ UNCHANGED <<pc, output_type, units, location, data, stdout, result, trace>>

CallGraphic ==
    /\ call.fn = "none"
    /\ \E g \in DOMAIN GraphicTypes, c \in 0..MaxCode, day \in {0, 1} :
        /\ call' = [NoCall EXCEPT !.fn = "get_weather_graphic",
                                  !.graphic_type = g, !.code = c, !.is_day = day]
        /\ ret' = get_weather_graphic(GraphicTypes[g], c, day)
    /\ UNCHANGED <<pc, output_type, units, location, data, stdout, result, trace>>

NextPure == CallCompass \/ CallDescription \/ CallCategory \/ CallGraphic

SpecPure == InitPure /\ [][NextPure]_vars

-----------------------------------------------------------------------------
(* Properties of a run of main(), checked under Spec *)

Last(seq) == seq[Len(seq)]

Requests(endpoint) ==
    {i \in DOMAIN trace : trace[i].ev = "request" /\ trace[i].endpoint = endpoint}

\* a request that met a transport failure or a non-2xx status
Failed(e) ==
    e.ev = "request" /\ (e.transport = "error" \/ e.status \notin 200..299)

PrintedLast(message) == stdout # <<>> /\ Last(stdout).label = message

\* C1: when the geocoder answers with a `results` array that is present but
\* empty, main prints the location-not-found message, returns 1 and issues no
\* forecast request.
C1_EmptyResultsNotFound ==
    (pc = "done" /\ \E i \in Requests("geocoding") : trace[i].shape = "results_empty")
        => /\ PrintedLast(LOCATION_NOT_FOUND)
           /\ result = "returned 1"
           /\ Requests("forecast") = {}

\* C2: the stages run in the order geocode request, forecast request, render:
\* the forecast request follows the return of geocode, rendering follows the
\* return of fetch_weather, each endpoint receives at most one request, and no
\* request follows a failed request.
C2_StageOrder ==
    /\ \A i \in Requests("forecast") :
          \E j \in 1..(i - 1) :
              trace[j].ev = "returned" /\ trace[j].endpoint = "geocoding"
    /\ \A i \in DOMAIN trace :
          trace[i].ev = "render" =>
              \E j \in 1..(i - 1) :
                  trace[j].ev = "returned" /\ trace[j].endpoint = "forecast"
    /\ Cardinality(Requests("geocoding")) <= 1
    /\ Cardinality(Requests("forecast")) <= 1
    /\ \A i, j \in DOMAIN trace :
          (i < j /\ Failed(trace[i])) => trace[j].ev # "request"

\* C3: every run of main ends by returning 0 or 1; it returns 0 exactly when
\* geocode, fetch_weather and display_weather all completed, and otherwise it
\* has printed the message of the error kind and returns 1; no failure leaves
\* main as an unhandled exception.
C3_ExitCodes ==
    pc = "done" =>
        /\ result \in {"returned 0", "returned 1"}
        /\ result = "returned 0" <=> (\E i \in DOMAIN trace : trace[i].ev = "rendered")
        /\ result # "returned 0" =>
              \/ PrintedLast(NETWORK_ERROR)
              \/ PrintedLast(LOCATION_NOT_FOUND)
              \/ PrintedLast(PARSE_ERROR)

\* C4: a non-2xx status from either endpoint is surfaced as a network error:
\* main prints the network error message and returns 1, for the geocoding
\* endpoint as for the forecast endpoint, and not the location-not-found
\* message.
C4_Non2xxIsNetworkError ==
    (pc = "done" /\ \E i \in DOMAIN trace :
                        /\ trace[i].ev = "request"
                        /\ trace[i].transport = "ok"
                        /\ trace[i].status \notin 200..299)
        => /\ PrintedLast(NETWORK_ERROR)
           /\ result = "returned 1"

VisibilityLine == CHOOSE l \in Range(stdout) : l.label = "Visibility"

\* C6: visibility has three outcomes: feet and raw >= 5280 gives miles
\* (raw / 5280), meters and raw >= 1000 gives kilometers (raw / 1000), and in
\* every other case the value and the reported unit are printed unchanged.
C6_VisibilityUnits ==
    (pc = "done" /\ result = "returned 0") =>
        LET raw == data.v["current"].v["visibility"].v
            unit == data.v["current_units"].v["visibility"].v
        IN  IF unit = "ft" /\ raw >= 5280
            THEN /\ VisibilityLine.unit = "miles"
                 /\ VisibilityLine.value = FloatStr(Round2(raw, 5280))
            ELSE IF unit = "m" /\ raw >= 1000
            THEN /\ VisibilityLine.unit = "km"
                 /\ VisibilityLine.value = FloatStr(Round2(raw, 1000))
            ELSE /\ VisibilityLine.unit = unit
                 /\ VisibilityLine.value = ToString(raw)

\* C7: in `extra` mode every additional atmospheric field is printed with the
\* unit that current_units holds under that field's own name.
C7_ExtraFieldUnits ==
    (pc = "done" /\ result = "returned 0" /\ output_type = "extra") =>
        \A i \in DOMAIN stdout :
            stdout[i].field \in Range(ExtraFields) =>
                stdout[i].unit = data.v["current_units"].v[stdout[i].field].v

-----------------------------------------------------------------------------
(* Properties of the helpers, checked under SpecPure *)

Categories ==
    {"clear", "partly_cloudy", "cloudy", "rain", "snow", "thunderstorm", "fog"}

\* the distance between two bearings, in quarter degrees, around the circle
CircularDistance(a, b) ==
    LET m == (a - b) % 1440 IN IF m <= 720 THEN m ELSE 1440 - m

\* C5: a night glyph is selected only when the category is clear or
\* partly_cloudy and is_day is false: by day the glyph is the plain glyph of
\* the code's category, and code 0 by night gives clear_night.
C5_NightGlyphOnlyAtNight ==
    call.fn = "get_weather_graphic" =>
        LET table == GraphicTypes[call.graphic_type]
            category == get_weather_category(call.code)
        IN  /\ call.is_day # 0 => ret = table[category]
            /\ (call.code = 0 /\ call.is_day = 0) => ret = table["clear_night"]
            /\ ret \in {table["clear_night"], table["partly_cloudy_night"]} =>
                  (category \in {"clear", "partly_cloudy"} /\ call.is_day = 0)

\* C8: a code that is no key of WEATHER_CODES has category cloudy and
\* description "Unknown (<code>)"; a code that is a key has the table's
\* description and one of the seven categories.
C8_CodeTables ==
    /\ call.fn = "get_weather_category" =>
          IF call.code \in DOMAIN WEATHER_CODES
          THEN ret \in Categories
          ELSE ret = "cloudy"
    /\ call.fn = "get_weather_description" =>
          IF call.code \in DOMAIN WEATHER_CODES
          THEN ret = WEATHER_CODES[call.code]
          ELSE ret = "Unknown (" \o ToString(call.code) \o ")"

C8_Witness ==
    \/ call.fn = "get_weather_description" /\ call.code = 4 /\ ret = "Unknown (4)"
    \/ call.fn = "get_weather_category" /\ call.code = 4 /\ ret = "cloudy"

\* C9: degrees_to_compass returns one of the 16 labels, the one whose bearing
\* (a multiple of 22.5 degrees) lies within 11.25 degrees of the direction;
\* 0, 359 and 360 give N and 90 gives E.
C9_CompassSector ==
    call.fn = "degrees_to_compass" =>
        /\ \E k \in 0..15 :
              /\ ret = directions[k + 1]
              /\ CircularDistance(4 * call.degrees, 90 * k) <= 45
        /\ call.degrees \in {0, 359, 360} => ret = "N"
        /\ call.degrees = 90 => ret = "E"

C9_Witness == call.fn = "degrees_to_compass" /\ call.degrees = 359 /\ ret = "N"

\* C10: the _night suffix is appended exactly when the category is clear, or
\* is partly_cloudy with is_day false; the resulting key is a key of both
\* glyph tables, so the cloudy glyph is returned only for a cloudy category.
C10_NightSuffix ==
    call.fn = "get_weather_graphic" =>
        LET table == GraphicTypes[call.graphic_type]
            category == get_weather_category(call.code)
            night == \/ category = "clear"
                     \/ category = "partly_cloudy" /\ call.is_day = 0
            key == IF night THEN category \o "_night" ELSE category
        IN  /\ key \in DOMAIN WEATHER_ASCII_ART
            /\ key \in DOMAIN WEATHER_SYMBOLS
            /\ ret = table[key]
            /\ night <=> (/\ category \o "_night" \in DOMAIN table
                          /\ ret = table[category \o "_night"])
            /\ ret = table["cloudy"] => category = "cloudy"

C10_Witness ==
    /\ call.fn = "get_weather_graphic"
    /\ call.code = 2
    /\ call.is_day = 0
    /\ call.graphic_type = "symbols"
    /\ ret = "crescent mooncloud"

=============================================================================
